---- MODULE Spec2Model ----
(***************************************************************************)
(* Model of src/taebaek_meal.py: the concurrent school-meal lookup cycle.  *)
(*                                                                         *)
(* One cycle (the button handler, lines 223-287) submits one               *)
(* get_single_school_data task per school to a ThreadPoolExecutor, drains  *)
(* the futures with as_completed into results_map, rebuilds meal_results   *)
(* in the order of the school list and filters schools_with_menus.         *)
(*                                                                         *)
(* Text is modelled as a sequence of tokens.  A token is one syllable of a *)
(* school name, one word of a message, the line-break marker "<br/>", a    *)
(* blank, or one piece of a dish name; Korean text is written romanised.   *)
(* Python's `a in b` on strings is Contains(b, a) on token sequences.      *)
(***************************************************************************)
EXTENDS Naturals, Sequences, FiniteSets

VARIABLES
    schools,            \* the school list the cycle iterates (TAEBAEK_SCHOOLS)
    net,                \* per task: what the provider / runtime will answer
    pc,                 \* position of the main thread
    st,                 \* per task: unsubmitted, queued, search, fetch, finished
    school_code,        \* per task: get_single_school_data's local school_code
    future,             \* per task: the future's outcome
    fetch_calls,        \* per task: identifiers fetch_meal_menu was called with
    yielded,            \* futures as_completed has already yielded
    results_map,        \* school name -> record
    completed_count,
    meal_results,
    schools_with_menus,
    overtaken           \* history: as_completed yielded a future before an earlier one

vars == <<schools, net, pc, st, school_code, future, fetch_calls, yielded,
          results_map, completed_count, meal_results, schools_with_menus, overtaken>>

(***************************************************************************)
(* Bounds of the model.                                                    *)
(***************************************************************************)
MaxSchools == 3         \* longest school list of the detailed cycles
MaxFairSchools == 2     \* longest school list of the cycles checked for progress
MaxRows == 3            \* longest candidate list in a directory response
MaxDishLen == 5         \* longest dish-list string, in tokens
PoolExtra == 1          \* schools beyond max_workers in the pool cycles

(***************************************************************************)
(* Program constants.                                                      *)
(***************************************************************************)
max_workers == 10

None == "<None>"

ElementaryMark == <<"cho", "deung", "hak", "gyo">>
MiddleMark == <<"jung", "hak", "gyo">>
HighMark == <<"go", "deung", "hak", "gyo">>
RaonMark == <<"ra", "on", "hak", "gyo">>

TAEBAEK_SCHOOLS ==
    << <<"dong", "jeom">> \o ElementaryMark,
       <<"mi", "dong">> \o ElementaryMark,
       <<"sam", "seong">> \o ElementaryMark,
       <<"sang", "jang">> \o ElementaryMark,
       <<"jang", "seong">> \o ElementaryMark,
       <<"cheol", "am">> \o ElementaryMark,
       <<"tae", "baek">> \o ElementaryMark,
       <<"tae", "seo">> \o ElementaryMark,
       <<"tong", "ri">> \o ElementaryMark,
       <<"ham", "tae">> \o ElementaryMark,
       <<"hwang", "ji", "jung", "ang">> \o ElementaryMark,
       <<"hwang", "ji">> \o ElementaryMark,
       <<"sang", "jang">> \o MiddleMark,
       <<"se", "yeon">> \o MiddleMark,
       <<"tae", "baek">> \o MiddleMark,
       <<"ham", "tae">> \o MiddleMark,
       <<"hwang", "ji">> \o MiddleMark,
       <<"jang", "seong", "yeo", "ja">> \o HighMark,
       <<"cheol", "am">> \o HighMark,
       <<"han", "guk", "hang", "gong">> \o HighMark,
       <<"hwang", "ji">> \o HighMark,
       <<"hwang", "ji", "jeong", "bo", "san", "eop">> \o HighMark,
       <<"tae", "baek">> \o RaonMark >>

(***************************************************************************)
(* Strings.                                                                *)
(***************************************************************************)
BR == "<br/>"
SP == " "

Contains(s, sub) ==
    \E k \in 0..Len(s) : k + Len(sub) <= Len(s) /\ SubSeq(s, k + 1, k + Len(sub)) = sub

IsSpace(c) == c = SP

RECURSIVE lstrip(_)
lstrip(s) == IF s # <<>> /\ IsSpace(Head(s)) THEN lstrip(Tail(s)) ELSE s

RECURSIVE rstrip(_)
rstrip(s) ==
    IF s # <<>> /\ IsSpace(s[Len(s)]) THEN rstrip(SubSeq(s, 1, Len(s) - 1)) ELSE s

strip(s) == rstrip(lstrip(s))

\* str.split(BR): a left-to-right scan; the marker is one token, so no two
\* occurrences overlap.  "".split(BR) is [""].
RECURSIVE split(_)
split(s) ==
    IF s = <<>> THEN << <<>> >>
    ELSE IF Head(s) = BR THEN << <<>> >> \o split(Tail(s))
    ELSE LET r == split(Tail(s)) IN << <<Head(s)>> \o r[1] >> \o Tail(r)

NonEmpty(d) == d # <<>>

RECURSIVE MapStrip(_)
MapStrip(ds) == IF ds = <<>> THEN <<>> ELSE <<strip(Head(ds))>> \o MapStrip(Tail(ds))

(***************************************************************************)
(* Message texts (lines 96, 97, 109, 245) and the markers the summary      *)
(* filter searches for (lines 259-261).                                    *)
(***************************************************************************)
NoDataText == <<"jeongboga eopseumnida", ".">>
FetchFailedText == <<"jeongboreul bulleooneun de ", "silpaehaetseumnida", ".">>
NotFoundText == <<"X hakgyo kodeureul ", "chajeul su eopseumnida", ".">>
ErrorPrefix == <<"oryu balsaeng: ">>

NoDataMarker == <<"jeongboga eopseumnida">>
FetchFailedMarker == <<"silpaehaetseumnida">>
NotFoundMarker == <<"chajeul su eopseumnida">>

(***************************************************************************)
(* Helper functions of the script.                                         *)
(***************************************************************************)
get_school_category(school_name) ==
    IF Contains(school_name, ElementaryMark) THEN "chodeunghakgyo"
    ELSE IF Contains(school_name, MiddleMark) THEN "junghakgyo"
    ELSE IF Contains(school_name, HighMark) THEN "godeunghakgyo"
    ELSE IF Contains(school_name, RaonMark) THEN "teuksuhakgyo"
    ELSE "gita"

\* The for loop of lines 68-70: index of the first row named school_name, or 0.
RECURSIVE first_exact(_, _, _)
first_exact(rows, school_name, k) ==
    IF k > Len(rows) THEN 0
    ELSE IF rows[k].SCHUL_NM = school_name THEN k
    ELSE first_exact(rows, school_name, k + 1)

\* Variant without the exact-name loop: always the first candidate.
search_first_candidate(resp, school_name) ==
    IF resp.status # "ok" THEN None
    ELSE IF ~resp.has_service THEN None
    ELSE IF ~resp.has_second THEN None
    ELSE IF ~resp.has_row THEN None
    ELSE IF resp.row = <<>> THEN None
    ELSE resp.row[1].SD_SCHUL_CODE

\* A response is [status, has_service, has_second, has_row, row]: whether the
\* request and the JSON decoding succeeded, whether the service key is in the
\* document, whether its list has an element [1], whether that element has a
\* 'row' key, and the rows.  Every exception raised inside the try block is
\* caught by `except Exception` and turned into None.
search_school_code(resp, school_name) ==
    IF resp.status # "ok" THEN None
    ELSE IF ~resp.has_service THEN None
    ELSE IF ~resp.has_second THEN None
    ELSE IF ~resp.has_row THEN None
    ELSE LET found == resp.row
             m == first_exact(found, school_name, 1)
         IN  IF m # 0 THEN found[m].SD_SCHUL_CODE
             ELSE IF found = <<>> THEN None
             ELSE found[1].SD_SCHUL_CODE

\* Variant without the `if d.strip()` filter.
parse_keep_empty(dish_info) == MapStrip(split(dish_info))

\* Line 93: [d.strip() for d in dish_info.split('<br/>') if d.strip()]
parse_dishes(dish_info) == SelectSeq(MapStrip(split(dish_info)), NonEmpty)

\* Variant that reports every failure as "no data".
fetch_failure_as_no_data(resp) ==
    IF resp.status # "ok" THEN <<NoDataText>>
    ELSE IF ~resp.has_service THEN <<NoDataText>>
    ELSE IF ~resp.has_second THEN <<NoDataText>>
    ELSE IF ~resp.has_row THEN <<NoDataText>>
    ELSE IF resp.row = <<>> THEN <<NoDataText>>
    ELSE parse_dishes(IF resp.row[1].has_dish THEN resp.row[1].DDISH_NM ELSE <<>>)

\* Lines 85-97.  Whatever raises inside the try block gives the text of line
\* 96: the request, a list without element [1] (IndexError), an empty row list
\* (IndexError at ['row'][0]).  A false condition at line 89 gives line 97.
fetch_meal_menu(resp) ==
    IF resp.status # "ok" THEN <<FetchFailedText>>
    ELSE IF ~resp.has_service THEN <<NoDataText>>
    ELSE IF ~resp.has_second THEN <<FetchFailedText>>
    ELSE IF ~resp.has_row THEN <<NoDataText>>
    ELSE IF resp.row = <<>> THEN <<FetchFailedText>>
    ELSE LET record == resp.row[1]
             dish_info == IF record.has_dish THEN record.DDISH_NM ELSE <<>>
         IN  parse_dishes(dish_info)

\* Variant that fetches whatever the lookup returned.
TruthyAlways(code) == TRUE

\* `if school_code:` (line 105)
Truthy(code) == code # None /\ code # ""

MenuRecord(school_name, menu) ==
    [category |-> get_school_category(school_name), name |-> school_name, menu |-> menu]

\* Variant that does not look the category up.
synthetic_without_category(school_name, exc) ==
    [category |-> "gita", name |-> school_name, menu |-> <<ErrorPrefix \o exc>>]

\* Line 245: the record stored when future.result() raises.
synthetic_record(school_name, exc) ==
    MenuRecord(school_name, <<ErrorPrefix \o exc>>)

\* Lines 258-261: the summary filter.
has_usable_menu(r) ==
    /\ r.menu # <<>>
    /\ ~Contains(r.menu[1], NoDataMarker)
    /\ ~Contains(r.menu[1], FetchFailedMarker)
    /\ ~Contains(r.menu[1], NotFoundMarker)

(***************************************************************************)
(* The cycle.                                                              *)
(***************************************************************************)
N == Len(schools)
Tasks == 1..N
Running == {i \in Tasks : st[i] \in {"search", "fetch"}}
Submitted == {i \in Tasks : st[i] # "unsubmitted"}

NoFuture == [kind |-> "pending", value |-> <<>>]
ExcText == <<"boom">>

\* Variant that binds every future to the last school of the list.
future_to_last_school(i) == schools[N]

\* Line 233 / 240: the school a future was submitted for.
future_to_school(i) == schools[i]

\* Variant with a thread per work item.
PoolUnbounded == TRUE

\* ThreadPoolExecutor(max_workers=10): a queued work item is taken only by one
\* of at most max_workers threads, each running one item at a time.
PoolHasIdleWorker == Cardinality(Running) < max_workers

InitCycle(list, env) ==
    /\ schools = list
    /\ net = env
    /\ pc = "submit"
    /\ st = [i \in 1..Len(list) |-> "unsubmitted"]
    /\ school_code = [i \in 1..Len(list) |-> None]
    /\ future = [i \in 1..Len(list) |-> NoFuture]
    /\ fetch_calls = [i \in 1..Len(list) |-> <<>>]
    /\ yielded = {}
    /\ results_map = [k \in {} |-> k]
    /\ completed_count = 0
    /\ meal_results = <<>>
    /\ schools_with_menus = <<>>
    /\ overtaken = FALSE

\* Lines 232-235: executor.submit for the next school of the list.
Submit ==
    /\ pc = "submit"
    /\ LET i == Cardinality(Submitted) + 1 IN
        /\ st' = [st EXCEPT ![i] = "queued"]
        /\ pc' = IF i = N THEN "collect" ELSE "submit"
    /\ UNCHANGED <<schools, net, school_code, future, fetch_calls, yielded,
                   results_map, completed_count, meal_results, schools_with_menus, overtaken>>

\* A pool thread takes the oldest queued work item and runs
\* get_single_school_data up to the directory request (lines 102-103, 63).
Start(i) ==
    /\ st[i] = "queued"
    /\ \A j \in Tasks : j < i => st[j] # "queued"
    /\ PoolHasIdleWorker
    /\ st' = [st EXCEPT ![i] = "search"]
    /\ UNCHANGED <<schools, net, pc, school_code, future, fetch_calls, yielded,
                   results_map, completed_count, meal_results, schools_with_menus, overtaken>>

\* search_school_code returns; lines 105-109: call fetch_meal_menu with the
\* identifier, or return the not-found record.
SearchReturn(i) ==
    /\ st[i] = "search"
    /\ ~net[i].fault
    /\ LET code == search_school_code(net[i].dir, schools[i]) IN
        /\ school_code' = [school_code EXCEPT ![i] = code]
        /\ IF Truthy(code)
           THEN /\ st' = [st EXCEPT ![i] = "fetch"]
                /\ fetch_calls' = [fetch_calls EXCEPT ![i] = Append(@, code)]
                /\ UNCHANGED future
           ELSE /\ st' = [st EXCEPT ![i] = "finished"]
                /\ future' = [future EXCEPT ![i] =
                       [kind |-> "result",
                        value |-> MenuRecord(schools[i], <<NotFoundText>>)]]
                /\ UNCHANGED fetch_calls
    /\ UNCHANGED <<schools, net, pc, yielded, results_map, completed_count,
                   meal_results, schools_with_menus, overtaken>>

\* fetch_meal_menu returns; line 107.
FetchReturn(i) ==
    /\ st[i] = "fetch"
    /\ st' = [st EXCEPT ![i] = "finished"]
    /\ future' = [future EXCEPT ![i] =
           [kind |-> "result",
            value |-> MenuRecord(schools[i], fetch_meal_menu(net[i].meal))]]
    /\ UNCHANGED <<schools, net, pc, school_code, fetch_calls, yielded,
                   results_map, completed_count, meal_results, schools_with_menus, overtaken>>

\* An error no try block of the worker catches: the executor stores it in the
\* future.
WorkerRaise(i) ==
    /\ st[i] = "search"
    /\ net[i].fault
    /\ st' = [st EXCEPT ![i] = "finished"]
    /\ future' = [future EXCEPT ![i] = [kind |-> "exception", value |-> ExcText]]
    /\ UNCHANGED <<schools, net, pc, school_code, fetch_calls, yielded,
                   results_map, completed_count, meal_results, schools_with_menus, overtaken>>

\* Variant without the except clause: the exception leaves the loop.
CollectNoExcept(i) ==
    /\ pc = "collect"
    /\ st[i] = "finished"
    /\ i \notin yielded
    /\ yielded' = yielded \cup {i}
    /\ overtaken' = (overtaken \/ \E j \in Tasks : j < i /\ j \notin yielded)
    /\ IF future[i].kind = "result"
       THEN /\ results_map' = [k \in DOMAIN results_map \cup {future_to_school(i)} |->
                                  IF k = future_to_school(i) THEN future[i].value
                                  ELSE results_map[k]]
            /\ completed_count' = completed_count + 1
            /\ pc' = IF yielded' = Tasks THEN "rebuild" ELSE "collect"
       ELSE /\ pc' = "failed"
            /\ UNCHANGED <<results_map, completed_count>>
    /\ UNCHANGED <<schools, net, st, school_code, future, fetch_calls,
                   meal_results, schools_with_menus>>

\* One iteration of the as_completed loop, lines 239-249; the with block is
\* left once every future has been yielded.
Collect(i) ==
    /\ pc = "collect"
    /\ st[i] = "finished"
    /\ i \notin yielded
    /\ LET school_name == future_to_school(i)
           result == IF future[i].kind = "result" THEN future[i].value
                     ELSE synthetic_record(school_name, future[i].value)
       IN  results_map' = [k \in DOMAIN results_map \cup {school_name} |->
                              IF k = school_name THEN result ELSE results_map[k]]
    /\ completed_count' = completed_count + 1
    /\ yielded' = yielded \cup {i}
    /\ overtaken' = (overtaken \/ \E j \in Tasks : j < i /\ j \notin yielded)
    /\ pc' = IF yielded' = Tasks THEN "rebuild" ELSE "collect"
    /\ UNCHANGED <<schools, net, st, school_code, future, fetch_calls,
                   meal_results, schools_with_menus>>

\* One iteration of lines 251-252; a missing key raises KeyError.
Rebuild ==
    /\ pc = "rebuild"
    /\ LET school_name == schools[Len(meal_results) + 1] IN
        IF school_name \in DOMAIN results_map
        THEN /\ meal_results' = Append(meal_results, results_map[school_name])
             /\ pc' = IF Len(meal_results) + 1 = N THEN "render" ELSE "rebuild"
        ELSE /\ pc' = "failed"
             /\ UNCHANGED meal_results
    /\ UNCHANGED <<schools, net, st, school_code, future, fetch_calls, yielded,
                   results_map, completed_count, schools_with_menus, overtaken>>

\* Lines 254-262.
Render ==
    /\ pc = "render"
    /\ schools_with_menus' = SelectSeq(meal_results, has_usable_menu)
    /\ pc' = "done"
    /\ UNCHANGED <<schools, net, st, school_code, future, fetch_calls, yielded,
                   results_map, completed_count, meal_results, overtaken>>

Next ==
    \/ Submit
    \/ \E i \in Tasks : Start(i)
    \/ \E i \in Tasks : SearchReturn(i)
    \/ \E i \in Tasks : FetchReturn(i)
    \/ \E i \in Tasks : WorkerRaise(i)
    \/ \E i \in Tasks : Collect(i)
    \/ Rebuild
    \/ Render

(***************************************************************************)
(* The provider's answers.                                                 *)
(***************************************************************************)
Response(has_service, has_second, has_row, row) ==
    [status |-> "ok", has_service |-> has_service, has_second |-> has_second,
     has_row |-> has_row, row |-> row]

\* The request raised: timeout, connection error, raise_for_status, bad JSON.
ErrorResponse ==
    [status |-> "error", has_service |-> FALSE, has_second |-> FALSE,
     has_row |-> FALSE, row |-> <<>>]

\* The provider's document for "no data": only a RESULT object.
NoDataResponse == Response(FALSE, FALSE, FALSE, <<>>)

Rows(row) == Response(TRUE, TRUE, TRUE, row)

SchoolRow(school_name, code) == [SCHUL_NM |-> school_name, SD_SCHUL_CODE |-> code]
DishRecord(dish_info) == [has_dish |-> TRUE, DDISH_NM |-> dish_info]
NoDishRecord == [has_dish |-> FALSE, DDISH_NM |-> <<>>]

SeqsUpTo(S, n) == UNION {[1..k -> S] : k \in 0..n}

SampleDishInfo == <<"baekmibap", "(1.5.6)", BR, SP, "gimchijjigae", BR>>
SampleDishes == << <<"baekmibap", "(1.5.6)">>, <<"gimchijjigae">> >>

ScenarioKinds == {"raise", "not_found", "fetch_failed", "no_data", "success"}

Scenario(kind, school_name) ==
    [dir |-> IF kind \in {"fetch_failed", "no_data", "success"}
             THEN Rows(<<SchoolRow(school_name, "7001")>>)
             ELSE NoDataResponse,
     meal |-> IF kind = "success" THEN Rows(<<DishRecord(SampleDishInfo)>>)
              ELSE IF kind = "no_data" THEN NoDataResponse
              ELSE ErrorResponse,
     fault |-> kind = "raise"]

\* School lists: runs of consecutive schools of TAEBAEK_SCHOOLS, from the last
\* elementary school on or from the last high schools on.
CyclesUpTo(longest) ==
    \E a \in {12, 21} : \E n \in 1..longest :
        /\ a + n - 1 <= Len(TAEBAEK_SCHOOLS)
        /\ \E kinds \in [1..n -> ScenarioKinds] :
            InitCycle(SubSeq(TAEBAEK_SCHOOLS, a, a + n - 1),
                      [i \in 1..n |-> Scenario(kinds[i], TAEBAEK_SCHOOLS[a + i - 1])])

Init == CyclesUpTo(MaxSchools)

Spec == Init /\ [][Next]_vars

\* Every request returns or times out (timeout=10) and every thread is
\* scheduled: an enabled step is eventually taken.
InitFair == CyclesUpTo(MaxFairSchools)

FairSpec == InitFair /\ [][Next]_vars /\ WF_vars(Next)

\* Pool cycles: more schools than pool threads.
InitPool ==
    LET n == max_workers + PoolExtra IN
    InitCycle(SubSeq(TAEBAEK_SCHOOLS, 1, n),
              [i \in 1..n |-> Scenario(IF i = 1 THEN "raise"
                                       ELSE IF i = 2 THEN "success"
                                       ELSE "not_found", TAEBAEK_SCHOOLS[i])])

SpecPool == InitPool /\ [][Next]_vars

\* Resolver cycles: one school, every directory response within the bounds.
ResolveTarget == TAEBAEK_SCHOOLS[12]
ResolveOther == TAEBAEK_SCHOOLS[11]

DirectoryResponses ==
    {ErrorResponse, NoDataResponse, Response(TRUE, FALSE, FALSE, <<>>),
     Response(TRUE, TRUE, FALSE, <<>>)}
    \cup {Rows(row) : row \in SeqsUpTo(
              {SchoolRow(nm, code) : nm \in {ResolveTarget, ResolveOther},
                                     code \in {"", "7001", "7002"}}, MaxRows)}

InitResolve ==
    \E env \in {[dir |-> d, meal |-> Rows(<<DishRecord(SampleDishInfo)>>), fault |-> FALSE] :
                    d \in DirectoryResponses} \cup {Scenario("raise", ResolveTarget)} :
        InitCycle(<<ResolveTarget>>, <<env>>)

SpecResolve == InitResolve /\ [][Next]_vars

\* Fetcher cycles: one school, every meal response within the bounds.
DishAlphabet == {BR, SP, "bap", "(5.6)"}

MealRecords == {DishRecord(d) : d \in SeqsUpTo(DishAlphabet, MaxDishLen)} \cup {NoDishRecord}

MealResponses ==
    {ErrorResponse, NoDataResponse, Response(TRUE, FALSE, FALSE, <<>>),
     Response(TRUE, TRUE, FALSE, <<>>), Rows(<<>>)}
    \cup {Rows(<<r>>) : r \in MealRecords}
    \cup {Rows(<<r, DishRecord(<<"guk">>)>>) : r \in MealRecords}

InitFetch ==
    \E env \in {[dir |-> Rows(<<SchoolRow(ResolveTarget, "7001")>>), meal |-> m, fault |-> FALSE] :
                    m \in MealResponses} \cup {Scenario("raise", ResolveTarget)} :
        InitCycle(<<ResolveTarget>>, <<env>>)

SpecFetch == InitFetch /\ [][Next]_vars

(***************************************************************************)
(* Properties.                                                             *)
(***************************************************************************)
Searched(i) == st[i] = "fetch" \/ (st[i] = "finished" /\ future[i].kind = "result")
Returned(i) == st[i] = "finished" /\ future[i].kind = "result"
InSeq(x, seq) == \E k \in 1..Len(seq) : seq[k] = x

\* C1: whatever order the workers complete in, the rebuilt list follows the
\* school list: its i-th record carries the i-th school's name at every moment
\* of the rebuild, and once the rebuild has ended (normally or not) the list
\* has exactly one record per school.
C1_OrderPreserved ==
    /\ Len(meal_results) <= N
    /\ \A i \in 1..Len(meal_results) : meal_results[i].name = schools[i]
    /\ pc \in {"render", "done", "failed"} => Len(meal_results) = N

\* A finished cycle of the longest list in which a later school's future was
\* collected before an earlier one's.
C1_Witness ==
    /\ pc = "done"
    /\ N = MaxSchools
    /\ overtaken
    /\ Len(meal_results) = N

\* C2: a school whose directory lookup returned None has no fetch_meal_menu
\* call and its record is the not-found record; a fetch_meal_menu call is made
\* only once the lookup has returned, with exactly the identifier it returned,
\* and that identifier is not None.
C2_NotFoundNeverFetches ==
    \A i \in Tasks :
        /\ (Searched(i) /\ school_code[i] = None) =>
              /\ fetch_calls[i] = <<>>
              /\ st[i] = "finished"
              /\ future[i].value.menu = <<NotFoundText>>
        /\ fetch_calls[i] # <<>> =>
              /\ Searched(i)
              /\ school_code[i] # None
              /\ fetch_calls[i] = <<school_code[i]>>
              /\ \E k \in 1..Len(net[i].dir.row) :
                     net[i].dir.row[k].SD_SCHUL_CODE = school_code[i]

\* A finished cycle whose school was not found although the provider answered
\* (a document without rows), with no fetch recorded.
C2_Witness ==
    /\ pc = "done"
    /\ net[1].dir.status = "ok"
    /\ school_code[1] = None
    /\ fetch_calls[1] = <<>>
    /\ meal_results[1].menu = <<NotFoundText>>

\* C3: at every moment at most max_workers workers have started and not yet
\* finished, so at most max_workers worker requests are in flight.
C3_ConcurrencyBounded == Cardinality(Running) <= max_workers

\* All pool threads busy with requests in flight while a school still waits.
C3_Witness ==
    /\ Cardinality(Running) = max_workers
    /\ \E i \in Tasks : st[i] = "queued"
    /\ \E i \in Tasks : st[i] = "fetch"

\* The record the coordinator is to hold for task i.
C4_CollectedRecord(i) ==
    IF future[i].kind = "exception"
    THEN [category |-> get_school_category(schools[i]), name |-> schools[i],
          menu |-> <<ErrorPrefix \o future[i].value>>]
    ELSE future[i].value

\* C4: a worker's unexpected error costs only that school: its collected
\* record is the synthetic one (same name, same level category, the generic
\* failure menu), every other collected school has the record its own worker
\* returned, the cycle is not aborted, and the rebuilt list holds those records.
C4_WorkerErrorIsolated ==
    /\ pc # "failed"
    /\ \A i \in yielded :
          /\ schools[i] \in DOMAIN results_map
          /\ results_map[schools[i]] = C4_CollectedRecord(i)
    /\ \A i \in 1..Len(meal_results) : meal_results[i] = C4_CollectedRecord(i)

\* A finished cycle in which one worker raised and two others returned.
C4_Witness ==
    /\ pc = "done"
    /\ N = 3
    /\ future[2].kind = "exception"
    /\ future[1].kind = "result"
    /\ future[3].kind = "result"
    /\ meal_results[2].menu = <<ErrorPrefix \o ExcText>>

\* C5: provided every enabled step is eventually taken (each request returns,
\* errors or times out), every cycle eventually finishes with one record per
\* school, whatever the mix of outcomes.
C5_CycleCompletes == <>(pc = "done" /\ Len(meal_results) = N)

\* A finished cycle of two schools, collected out of order: a raising worker
\* and a failed fetch.
C5_Witness ==
    /\ pc = "done"
    /\ Len(meal_results) = 2
    /\ overtaken
    /\ future[1].kind = "exception"
    /\ meal_results[2].menu = <<FetchFailedText>>

\* The menu the responses prepared for task i call for.
C6_ExpectedMenu(i) ==
    IF net[i] = Scenario("not_found", schools[i]) THEN <<NotFoundText>>
    ELSE IF net[i] = Scenario("fetch_failed", schools[i]) THEN <<FetchFailedText>>
    ELSE IF net[i] = Scenario("no_data", schools[i]) THEN <<NoDataText>>
    ELSE SampleDishes

\* C6: a fetch whose request raised gives the fetch-failed text as the
\* worker's returned menu (nothing is raised past the worker: a future holds
\* an exception only for the injected worker fault), fetch_meal_menu is called
\* at most once per school, and every sibling returns what its own responses
\* determine: not found, fetch failed, no data, or the parsed dishes.
C6_FetchErrorContained ==
    \A i \in Tasks :
        /\ Len(fetch_calls[i]) <= 1
        /\ future[i].kind = "exception" => net[i].fault
        /\ (Returned(i) /\ fetch_calls[i] # <<>> /\ net[i].meal.status = "error") =>
              future[i].value.menu = <<FetchFailedText>>
        /\ Returned(i) => future[i].value.menu = C6_ExpectedMenu(i)

\* A finished cycle in which one school's fetch request raised and a sibling
\* returned its two dishes.
C6_Witness ==
    /\ pc = "done"
    /\ \E i, j \in Tasks :
          /\ fetch_calls[i] # <<>>
          /\ net[i].meal.status = "error"
          /\ meal_results[i].menu = <<FetchFailedText>>
          /\ meal_results[j].menu = SampleDishes

\* The request succeeded and the response holds no record.
C7_NoRecords(resp) ==
    /\ resp.status = "ok"
    /\ \/ ~resp.has_service
       \/ resp.has_service /\ resp.has_second /\ ~resp.has_row
       \/ resp.has_service /\ resp.has_second /\ resp.has_row /\ resp.row = <<>>

\* C7: the fetch returns the no-data text whenever the request succeeded and
\* the response has no records (service key absent, row key absent, or an
\* empty row list).
C7_NoDataForEveryEmptyShape ==
    \A i \in Tasks :
        (Returned(i) /\ fetch_calls[i] # <<>> /\ C7_NoRecords(net[i].meal)) =>
            future[i].value.menu = <<NoDataText>>

\* Task i returned a fetched, non-empty dish sequence.
C8_Success(i) ==
    /\ future[i].kind = "result"
    /\ fetch_calls[i] # <<>>
    /\ net[i].meal.status = "ok"
    /\ net[i].meal.has_service /\ net[i].meal.has_second /\ net[i].meal.has_row
    /\ net[i].meal.row # <<>>
    /\ future[i].value.menu # <<>>

\* C8: a school is counted as having a usable menu exactly when its record is
\* a fetched, non-empty dish sequence.
C8_UsableIffSuccess ==
    pc = "done" =>
        \A i \in Tasks : InSeq(meal_results[i], schools_with_menus) <=> C8_Success(i)

\* A successful response that holds rows, and the rows named like the school.
C9_HasRows(resp) ==
    /\ resp.status = "ok"
    /\ resp.has_service /\ resp.has_second /\ resp.has_row
    /\ resp.row # <<>>

C9_Exact(resp, school_name) == {k \in 1..Len(resp.row) : resp.row[k].SCHUL_NM = school_name}

\* C9: on a successful response with candidate rows the lookup returns the
\* identifier of the first row named exactly like the school, else that of the
\* first row; otherwise it returns None; it never raises.
C9_ResolverSelection ==
    \A i \in Tasks :
        /\ future[i].kind = "exception" => net[i].fault
        /\ Searched(i) =>
              LET resp == net[i].dir
                  exact == C9_Exact(resp, schools[i])
              IN  IF ~C9_HasRows(resp) THEN school_code[i] = None
                  ELSE IF exact = {} THEN school_code[i] = resp.row[1].SD_SCHUL_CODE
                  ELSE \E k \in exact :
                          /\ \A j \in exact : k <= j
                          /\ school_code[i] = resp.row[k].SD_SCHUL_CODE

\* The exactly named row is the last of three candidates and is the one chosen.
C9_Witness ==
    /\ Searched(1)
    /\ Len(net[1].dir.row) = 3
    /\ C9_Exact(net[1].dir, schools[1]) = {3}
    /\ net[1].dir.row[1].SD_SCHUL_CODE = "7001"
    /\ school_code[1] = "7002"

\* Positions of the markers, with both ends of the string.
C10_Bounds(s) == {0, Len(s) + 1} \cup {k \in 1..Len(s) : s[k] = BR}

\* <<a, b, lo, hi>>: a segment lies between the neighbouring boundaries a and b
\* and its first and last non-blank tokens are at lo and hi.
C10_Kept(s) ==
    {q \in C10_Bounds(s) \X C10_Bounds(s) \X (1..Len(s)) \X (1..Len(s)) :
        /\ q[1] < q[2]
        /\ ~\E m \in C10_Bounds(s) : q[1] < m /\ m < q[2]
        /\ q[1] < q[3] /\ q[3] <= q[4] /\ q[4] < q[2]
        /\ s[q[3]] # SP /\ s[q[4]] # SP
        /\ \A k \in (q[1] + 1)..(q[2] - 1) : (k < q[3] \/ k > q[4]) => s[k] = SP}

C10_DishesOf(s, menu) ==
    /\ Len(menu) = Cardinality(C10_Kept(s))
    /\ \A q \in C10_Kept(s) :
          menu[Cardinality({r \in C10_Kept(s) : r[1] < q[1]}) + 1] = SubSeq(s, q[3], q[4])

\* C10: the returned dishes are the segments between line-break markers, each
\* without its surrounding blanks, without the segments that hold nothing but
\* blanks, in the provider's order, every kept token unaltered.
C10_DishSplit ==
    \A i \in Tasks :
        (Returned(i) /\ fetch_calls[i] # <<>> /\ C9_HasRows(net[i].meal)
            /\ net[i].meal.row[1].has_dish) =>
            C10_DishesOf(net[i].meal.row[1].DDISH_NM, future[i].value.menu)

\* A dish list with an empty leading segment, a blank inner segment and an
\* empty trailing one: the only dish returned keeps its allergen codes.
C10_Witness ==
    /\ pc = "done"
    /\ net[1].meal.row # <<>>
    /\ net[1].meal.row[1].DDISH_NM = <<BR, "bap", "(5.6)", BR, SP>>
    /\ meal_results[1].menu = << <<"bap", "(5.6)">> >>

====
